---- MODULE Spec2Model ----
(***************************************************************************)
(* Model of the monitoring scripts of the Multi-Stage Docker Build         *)
(* Pipeline repository:                                                    *)
(*   src/monitoring/track-build-time.py  (class BuildTimeTracker, main)    *)
(*   src/monitoring/size-tracker.py      (class SizeTracker, main)         *)
(*                                                                         *)
(* A tracker loads a JSON history file on construction, appends one entry  *)
(* per tracked build and rewrites the whole file in place.  The history    *)
(* file is modelled as a sequence of JSON tokens, each CLI invocation as a *)
(* process whose steps are separated at the file-system calls.             *)
(*                                                                         *)
(* Units: a raw wall-clock duration is an integer number of milliseconds,  *)
(* a stored duration_seconds an integer number of centiseconds (it is      *)
(* round(duration, 2)), a stored cache_hit_rate an integer number of       *)
(* hundredths of a percent.  A float is modelled by the exact rational     *)
(* num/den it approximates.                                                *)
(***************************************************************************)
EXTENDS Integers, Sequences, FiniteSets, TLC

VARIABLES
    file,       \* file[f]: content of data file f, a sequence of JSON tokens
    fileExists, \* fileExists[f]: whether data file f exists
    pc,         \* pc[p]: where invocation p of its script stands
    args,       \* args[p]: the parsed --report/--compare/--export-csv flags
    history,    \* history[p]: self.history of p's tracker
    entry,      \* entry[p]: <<entry>> once the tracker has created it, else <<>>
    buf,        \* buf[p]: tokens json.dump produced that are not yet on disk
    pos,        \* pos[p]: file offset of p's open file object
    out,        \* out[p]: the lines p has printed on stdout
    csv,        \* csv[f]: content of the CSV export of f, a sequence of lines
    now,        \* the clock datetime.utcnow() reads
    runs,       \* number of invocations started so far
    nSaved,     \* nSaved[f]: number of appends to f whose _save_history completed
    serial,     \* whether the caller runs the invocations one at a time
    call        \* a direct call of a formatting method: its argument and outcome

vars == <<file, fileExists, pc, args, history, entry, buf, pos, out, csv, now, runs,
          nSaved, serial, call>>

----------------------------------------------------------------------------
(* Bounds of the model *)

\* invocations of the CLI in one behaviour
MaxRuns == 3
\* tokens one write() system call of the buffered file object transfers
ChunkLen == 16
\* records of a history the report operations are applied to
MaxHist == 2

\* the two concurrent invocations of track-build-time.py
Procs == {1, 2}
\* the invocations of size-tracker.py
SizeProcs == {3}

\* the data files: build-history.json and size-history.json
Files == {"build", "size"}
DataFile(p) == IF p \in Procs THEN "build" ELSE "size"

----------------------------------------------------------------------------
(* Python values *)

\* Python's None (the image size when docker inspect fails); sizes are >= 0
None == -1

----------------------------------------------------------------------------
(* Number formatting *)

Abs(x) == IF x < 0 THEN -x ELSE x

\* a / b for a >= 0, b > 0 rounded to the nearest integer, ties to even
RoundHalfEven(a, b) ==
    LET q == a \div b
        r == a % b
    IN  IF 2 * r < b THEN q
        ELSE IF 2 * r > b THEN q + 1
        ELSE IF q % 2 = 0 THEN q ELSE q + 1

Pad2(n) == IF n < 10 THEN "0" \o ToString(n) ELSE ToString(n)

\* f"{x:.2f}" for x = num/den, den > 0
Fixed2(num, den) ==
    LET scaled == RoundHalfEven(Abs(num) * 100, den)
    IN  (IF num < 0 THEN "-" ELSE "") \o ToString(scaled \div 100) \o "."
            \o Pad2(scaled % 100)

\* f"{x:.1f}" for x = num/den, den > 0
Fixed1(num, den) ==
    LET scaled == RoundHalfEven(Abs(num) * 10, den)
    IN  (IF num < 0 THEN "-" ELSE "") \o ToString(scaled \div 10) \o "."
            \o ToString(scaled % 10)

\* format_duration with the minutes and hours rounded to the nearest
\* instead of truncated
format_duration_rounded(num, den) ==
    IF num < 60 * den THEN Fixed2(num, den) \o "s"
    ELSE IF num < 3600 * den THEN
        LET minutes == RoundHalfEven(num, 60 * den)
            secs    == (num \div den) % 60
        IN  ToString(minutes) \o "m " \o ToString(secs) \o "s"
    ELSE
        LET hours   == RoundHalfEven(num, 3600 * den)
            minutes == ((num \div den) % 3600) \div 60
        IN  ToString(hours) \o "h " \o ToString(minutes) \o "m"

\* format_duration(seconds) for seconds = num/den >= 0
format_duration(num, den) ==
    IF num < 60 * den THEN Fixed2(num, den) \o "s"
    ELSE IF num < 3600 * den THEN
        LET minutes == num \div (60 * den)
            secs    == (num \div den) % 60
        IN  ToString(minutes) \o "m " \o ToString(secs) \o "s"
    ELSE
        LET hours   == num \div (3600 * den)
            minutes == ((num \div den) % 3600) \div 60
        IN  ToString(hours) \o "h " \o ToString(minutes) \o "m"

Units == <<"B", "KB", "MB", "GB">>

\* the for loop of get_human_readable_size from unit number u on, with
\* size_bytes = num/den at that point
RECURSIVE UnitLadder(_, _, _)
UnitLadder(num, den, u) ==
    IF u > Len(Units) THEN Fixed2(num, den) \o " TB"
    ELSE IF num < 1024 * den THEN Fixed2(num, den) \o " " \o Units[u]
    ELSE UnitLadder(num, den * 1024, u + 1)

\* the same loop from unit number u on for size_bytes = m * 1024^e, a byte
\* count too large to divide as num/den: it is m /= 1024.0 that takes one
\* off e
RECURSIVE ScaledLadder(_, _, _)
ScaledLadder(m, e, u) ==
    IF e = 0 THEN UnitLadder(m, 1, u)
    ELSE IF u > Len(Units) THEN Fixed2(m * 1024^e, 1) \o " TB"
    ELSE IF m = 0 THEN Fixed2(0, 1) \o " " \o Units[u]
    ELSE ScaledLadder(m, e - 1, u + 1)

\* BuildTimeTracker.get_human_readable_size(size_bytes), size_bytes = num/den
\* or None (then den = 1)
get_human_readable_size(num, den) ==
    IF num = None /\ den = 1 THEN "N/A" ELSE UnitLadder(num, den, 1)

----------------------------------------------------------------------------
(* The JSON document of the history file, as a sequence of tokens.  White  *)
(* space and the separators "," and ":" are left out; a member of an       *)
(* object is one token carrying its key.                                   *)

Tok(t, k, n, s) == [t |-> t, k |-> k, n |-> n, s |-> s]

\* keys of a build entry, in the order track_build inserts them
BuildKeys == <<"timestamp", "commit", "build_type", "image_name", "dockerfile",
               "no_cache", "duration_seconds", "duration_human", "cache_hits",
               "total_steps", "cache_hit_rate", "image_size_bytes",
               "image_size_human">>

StrKeys  == {"commit", "build_type", "image_name", "dockerfile",
             "duration_human", "image_size_human"}
BoolKeys == {"no_cache"}

\* DumpMember with None written as the number 0
DumpMemberNullAsZero(k, v) ==
    IF k \in StrKeys THEN Tok("str", k, 0, v)
    ELSE IF k \in BoolKeys THEN Tok(IF v THEN "true" ELSE "false", k, 0, "")
    ELSE Tok("num", k, IF v = None THEN 0 ELSE v, "")

\* json.dump of one member of an entry
DumpMember(k, v) ==
    IF k \in StrKeys THEN Tok("str", k, 0, v)
    ELSE IF k \in BoolKeys THEN Tok(IF v THEN "true" ELSE "false", k, 0, "")
    ELSE IF v = None THEN Tok("null", k, 0, "")
    ELSE Tok("num", k, v, "")

RECURSIVE DumpMembers(_, _)
DumpMembers(b, i) ==
    IF i > Len(BuildKeys) THEN <<>>
    ELSE (IF BuildKeys[i] \in DOMAIN b
            THEN <<DumpMember(BuildKeys[i], b[BuildKeys[i]])>> ELSE <<>>)
         \o DumpMembers(b, i + 1)

\* json.dump of one build entry
DumpBuild(b) ==
    <<Tok("{", "", 0, "")>> \o DumpMembers(b, 1) \o <<Tok("}", "", 0, "")>>

RECURSIVE DumpBuilds(_)
DumpBuilds(bs) ==
    IF bs = <<>> THEN <<>> ELSE DumpBuild(Head(bs)) \o DumpBuilds(Tail(bs))

\* json.dump(self.history, f) for self.history = {"builds": [...]}
Dump(h) ==
    <<Tok("{", "", 0, ""), Tok("[", "builds", 0, "")>> \o DumpBuilds(h.builds)
        \o <<Tok("]", "", 0, ""), Tok("}", "", 0, "")>>

\* json.load: a recursive-descent parse.  A result is
\* [ok |-> TRUE, v |-> value, next |-> index after the value] or
\* [ok |-> FALSE, ...] for json.JSONDecodeError.
ParseError == [ok |-> FALSE, v |-> <<>>, next |-> 0]

RECURSIVE ParseValue(_, _), ParseObject(_, _, _), ParseArray(_, _, _)
ParseValue(toks, i) ==
    IF i > Len(toks) THEN ParseError
    ELSE LET t == toks[i].t
         IN  CASE t = "num"   -> [ok |-> TRUE, v |-> toks[i].n, next |-> i + 1]
               [] t = "str"   -> [ok |-> TRUE, v |-> toks[i].s, next |-> i + 1]
               [] t = "null"  -> [ok |-> TRUE, v |-> None, next |-> i + 1]
               [] t = "true"  -> [ok |-> TRUE, v |-> TRUE, next |-> i + 1]
               [] t = "false" -> [ok |-> TRUE, v |-> FALSE, next |-> i + 1]
               [] t = "{"     -> ParseObject(toks, i + 1, <<>>)
               [] t = "["     -> ParseArray(toks, i + 1, <<>>)
               [] OTHER       -> ParseError

ParseObject(toks, i, acc) ==
    IF i > Len(toks) THEN ParseError
    ELSE IF toks[i].t = "}" THEN [ok |-> TRUE, v |-> acc, next |-> i + 1]
    ELSE IF toks[i].k = "" THEN ParseError
    ELSE LET r == ParseValue(toks, i)
         IN  IF ~r.ok THEN ParseError
             ELSE ParseObject(toks, r.next, (toks[i].k :> r.v) @@ acc)

ParseArray(toks, i, acc) ==
    IF i > Len(toks) THEN ParseError
    ELSE IF toks[i].t = "]" THEN [ok |-> TRUE, v |-> acc, next |-> i + 1]
    ELSE IF toks[i].k # "" THEN ParseError
    ELSE LET r == ParseValue(toks, i)
         IN  IF ~r.ok THEN ParseError
             ELSE ParseArray(toks, r.next, Append(acc, r.v))

\* json.load(f): the whole content must be exactly one JSON value
Load(toks) ==
    LET r == ParseValue(toks, 1)
    IN  IF r.ok /\ r.next = Len(toks) + 1 /\ toks[1].k = "" THEN r
        ELSE ParseError

----------------------------------------------------------------------------
(* Inputs of one tracked build *)

\* --type
BuildTypes == {"multi-stage", "single-stage"}
\* what get_image_size returns: None when docker inspect fails
ImageSizes == {None, 2048}
\* wall-clock durations of docker build, in milliseconds
Durations == {12345}
\* <<cache_hits, total_steps>> counted in the build output
StepCounts == {<<1, 3>>}

\* the argparse defaults of --image and --dockerfile
DefaultImage == "multi-stage-app:latest"
DefaultDockerfile == "app/Dockerfile.multi-stage"

\* the entry track_build creates (the dict literal), with build_image's
\* cache_hit_rate
NewEntry(ts, commit_sha, build_type, image_name, dockerfile, no_cache, duration, cache_hits, total_steps, image_size) ==
    LET cache_hit_rate == IF total_steps > 0
                            THEN RoundHalfEven(cache_hits * 10000, total_steps)
                            ELSE 0
    IN  [timestamp        |-> ts,
         commit           |-> IF commit_sha = "" THEN "unknown" ELSE commit_sha,
         build_type       |-> build_type,
         image_name       |-> image_name,
         dockerfile       |-> dockerfile,
         no_cache         |-> no_cache,
         duration_seconds |-> RoundHalfEven(duration, 10),
         duration_human   |-> format_duration(duration, 1000),
         cache_hits       |-> cache_hits,
         total_steps      |-> total_steps,
         cache_hit_rate   |-> cache_hit_rate,
         image_size_bytes |-> image_size,
         image_size_human |-> get_human_readable_size(image_size, 1)]

----------------------------------------------------------------------------
(* Reports of BuildTimeTracker.  A report is the sequence of lines it      *)
(* prints, without the rulers and the column padding.                      *)

RECURSIVE SumOf(_, _)
\* sum(b[key] for b in bs)
SumOf(bs, key) ==
    IF bs = <<>> THEN 0 ELSE Head(bs)[key] + SumOf(Tail(bs), key)

IsMulti(b)  == b.build_type = "multi-stage"
IsSingle(b) == b.build_type = "single-stage"
\* the truth value of b['image_size_bytes']: None and 0 are false
HasSize(b)  == b.image_size_bytes # None /\ b.image_size_bytes # 0

\* builds[-5:]
LastFive(bs) == SubSeq(bs, IF Len(bs) > 5 THEN Len(bs) - 4 ELSE 1, Len(bs))

\* repr of a float given in hundredths: 12.34, 12.3, 12.0
PyFloat(h) ==
    ToString(h \div 100) \o "."
        \o (IF h % 10 = 0 THEN ToString((h % 100) \div 10) ELSE Pad2(h % 100))

\* str(b['cache_hit_rate']): build_image yields the int 0 without steps
PyRate(b) == IF b.total_steps = 0 THEN "0" ELSE PyFloat(b.cache_hit_rate)

\* SingleSlower with >= for >: equal averages also count as slower
SingleSlowerOrEqual(multi, single) ==
    SumOf(single, "duration_seconds") * Len(multi)
        >= SumOf(multi, "duration_seconds") * Len(single)

\* whether single_avg > multi_avg, the averages of duration_seconds
SingleSlower(multi, single) ==
    SumOf(single, "duration_seconds") * Len(multi)
        > SumOf(multi, "duration_seconds") * Len(single)

\* the "Build Time Comparison" block of generate_performance_report
ComparisonBlock(multi, single) ==
    LET sm == SumOf(multi, "duration_seconds")
        ss == SumOf(single, "duration_seconds")
        \* single_avg - multi_avg == diff / (100 * nm * ns) seconds
        diff == ss * Len(multi) - sm * Len(single)
    IN  IF multi # <<>> /\ single # <<>> /\ SingleSlower(multi, single)
          THEN <<"Build Time Comparison:",
                 "  Multi-stage is " \o Fixed1(diff * 100, ss * Len(multi))
                     \o "% faster",
                 "  Average time saved: "
                     \o format_duration(diff, 100 * Len(multi) * Len(single))>>
          ELSE <<>>

RECURSIVE RecentRows(_)
RecentRows(bs) ==
    IF bs = <<>> THEN <<>>
    ELSE <<ToString(Head(bs).timestamp) \o " " \o Head(bs).build_type \o " "
            \o Head(bs).duration_human \o " "
            \o Fixed1(Head(bs).cache_hit_rate, 100) \o "% "
            \o Head(bs).image_size_human>> \o RecentRows(Tail(bs))

\* BuildTimeTracker.generate_performance_report
generate_performance_report(builds) ==
    LET multi_stage  == SelectSeq(builds, IsMulti)
        single_stage == SelectSeq(builds, IsSingle)
        cached(b)    == ~b.no_cache
        uncached(b)  == b.no_cache
        cached_builds   == SelectSeq(multi_stage, cached)
        no_cache_builds == SelectSeq(multi_stage, uncached)
        AvgDuration(bs) ==
            format_duration(SumOf(bs, "duration_seconds"), 100 * Len(bs))
    IN  IF builds = <<>> THEN <<"No historical data available">>
        ELSE <<"Total Builds Tracked: " \o ToString(Len(builds))>>
          \o (IF multi_stage # <<>>
                THEN <<"Multi-Stage Builds:",
                       "  Total builds: " \o ToString(Len(multi_stage)),
                       "  Average duration: " \o AvgDuration(multi_stage),
                       "  Average cache hit rate: "
                           \o Fixed1(SumOf(multi_stage, "cache_hit_rate"),
                                     100 * Len(multi_stage)) \o "%">>
                     \o (IF cached_builds # <<>>
                           THEN <<"  With cache: " \o AvgDuration(cached_builds)>>
                           ELSE <<>>)
                     \o (IF no_cache_builds # <<>>
                           THEN <<"  Without cache: "
                                    \o AvgDuration(no_cache_builds)>>
                           ELSE <<>>)
                ELSE <<>>)
          \o (IF single_stage # <<>>
                THEN <<"Single-Stage Builds:",
                       "  Total builds: " \o ToString(Len(single_stage)),
                       "  Average duration: " \o AvgDuration(single_stage)>>
                ELSE <<>>)
          \o ComparisonBlock(multi_stage, single_stage)
          \o <<"Recent Builds (Last 5):">> \o RecentRows(LastFive(builds))

\* BuildTimeTracker.compare_builds: the lines printed and whether it raised
\* ZeroDivisionError
compare_builds(builds) ==
    LET multi_stage  == SelectSeq(builds, IsMulti)
        single_stage == SelectSeq(builds, IsSingle)
        sm == SumOf(multi_stage, "duration_seconds")
        ss == SumOf(single_stage, "duration_seconds")
        nm == Len(multi_stage)
        ns == Len(single_stage)
        multi_sized  == SelectSeq(multi_stage, HasSize)
        single_sized == SelectSeq(single_stage, HasSize)
        zm == SumOf(multi_sized, "image_size_bytes")
        zs == SumOf(single_sized, "image_size_bytes")
        duration_lines ==
            <<"Build Duration:",
              "  Multi-Stage:  " \o format_duration(sm, 100 * nm),
              "  Single-Stage: " \o format_duration(ss, 100 * ns),
              "  Improvement:  " \o Fixed1((ss * nm - sm * ns) * 100, ss * nm)
                  \o "% faster">>
        size_lines ==
            <<"Image Size:",
              "  Multi-Stage:  " \o UnitLadder(zm, Len(multi_sized), 1),
              "  Single-Stage: " \o UnitLadder(zs, Len(single_sized), 1),
              "  Reduction:    "
                  \o Fixed1((zs * Len(multi_sized) - zm * Len(single_sized)) * 100,
                            zs * Len(multi_sized)) \o "% smaller">>
    IN  IF multi_stage = <<>> \/ single_stage = <<>>
          THEN [raised |-> FALSE,
                lines |-> <<"Need both multi-stage and single-stage builds for comparison">>]
        ELSE IF ss = 0
          \* (single_avg_duration - multi_avg_duration) / single_avg_duration
          THEN [raised |-> TRUE, lines |-> <<>>]
        ELSE IF multi_sized = <<>> \/ single_sized = <<>>
          \* sum(...) / len([b for b in ... if b['image_size_bytes']])
          THEN [raised |-> TRUE, lines |-> duration_lines]
        ELSE [raised |-> FALSE, lines |-> duration_lines \o size_lines]

CsvHeader ==
    "timestamp,commit,build_type,image_name,duration_seconds,cache_hits,total_steps,cache_hit_rate,image_size_bytes,no_cache"

\* f"{build.get('image_size_bytes', 0)}": the default only stands in for a
\* missing key; a key holding None is formatted as str(None)
CsvSize(build) ==
    LET v == IF "image_size_bytes" \in DOMAIN build
               THEN build.image_size_bytes ELSE 0
    IN  IF v = None THEN "None" ELSE ToString(v)

\* the line export_csv writes for one build
CsvRow(build) ==
    ToString(build.timestamp) \o "," \o build.commit \o "," \o build.build_type
        \o "," \o build.image_name \o "," \o PyFloat(build.duration_seconds)
        \o "," \o ToString(build.cache_hits) \o "," \o ToString(build.total_steps)
        \o "," \o PyRate(build) \o "," \o CsvSize(build) \o ","
        \o (IF build.no_cache THEN "True" ELSE "False")

RECURSIVE CsvRows(_)
CsvRows(bs) ==
    IF bs = <<>> THEN <<>> ELSE <<CsvRow(Head(bs))>> \o CsvRows(Tail(bs))

\* the content export_csv leaves in build-history.csv (builds is not empty)
export_csv(builds) == <<CsvHeader>> \o CsvRows(builds)

----------------------------------------------------------------------------
(* SizeTracker: entries, their JSON form and the reports *)

\* what SizeTracker.get_image_size returns for the two images
SizeInputs == {None, 0, 2048}

\* n / d for d > 0 rounded to the nearest integer, ties to even, n of any sign
RoundSigned(n, d) ==
    IF n < 0 THEN -RoundHalfEven(-n, d) ELSE RoundHalfEven(n, d)

\* SizeTracker.get_human_readable_size(size_bytes), size_bytes = num/den:
\* the loop alone, without a test for None
size_human(num, den) == UnitLadder(num, den, 1)

\* the entry track_images creates (single_size is not 0)
NewSizeEntry(ts, commit_sha, multi_stage_image, single_stage_image, multi_size, single_size) ==
    LET size_reduction == single_size - multi_size
    IN  [timestamp    |-> ts,
         commit       |-> IF commit_sha = "" THEN "unknown" ELSE commit_sha,
         multi_stage  |-> [image      |-> multi_stage_image,
                           size_bytes |-> multi_size,
                           size_human |-> size_human(multi_size, 1)],
         single_stage |-> [image      |-> single_stage_image,
                           size_bytes |-> single_size,
                           size_human |-> size_human(single_size, 1)],
         reduction    |-> [bytes   |-> size_reduction,
                           human   |-> size_human(size_reduction, 1),
                           percent |-> RoundSigned(size_reduction * 10000,
                                                   single_size)]]

\* json.dump of the "multi_stage" / "single_stage" member of an entry
DumpImage(k, m) ==
    <<Tok("{", k, 0, ""), Tok("str", "image", 0, m.image),
      IF m.size_bytes = None THEN Tok("null", "size_bytes", 0, "")
      ELSE Tok("num", "size_bytes", m.size_bytes, ""),
      Tok("str", "size_human", 0, m.size_human), Tok("}", "", 0, "")>>

\* json.dump of one size entry
DumpSizeEntry(e) ==
    <<Tok("{", "", 0, ""), Tok("num", "timestamp", e.timestamp, ""),
      Tok("str", "commit", 0, e.commit)>>
        \o DumpImage("multi_stage", e.multi_stage)
        \o DumpImage("single_stage", e.single_stage)
        \o <<Tok("{", "reduction", 0, ""),
             Tok("num", "bytes", e.reduction.bytes, ""),
             Tok("str", "human", 0, e.reduction.human),
             Tok("num", "percent", e.reduction.percent, ""),
             Tok("}", "", 0, ""), Tok("}", "", 0, "")>>

RECURSIVE DumpSizeEntries(_)
DumpSizeEntries(es) ==
    IF es = <<>> THEN <<>>
    ELSE DumpSizeEntry(Head(es)) \o DumpSizeEntries(Tail(es))

\* json.dump(self.history, f) for self.history = {"entries": [...]}
DumpSize(h) ==
    <<Tok("{", "", 0, ""), Tok("[", "entries", 0, "")>>
        \o DumpSizeEntries(h.entries)
        \o <<Tok("]", "", 0, ""), Tok("}", "", 0, "")>>

RECURSIVE SumSize(_, _)
\* sum(e[image]["size_bytes"] for e in es)
SumSize(es, image) ==
    IF es = <<>> THEN 0
    ELSE Head(es)[image].size_bytes + SumSize(Tail(es), image)

\* repr of a float of any sign given in hundredths
PySignedFloat(h) == IF h < 0 THEN "-" \o PyFloat(-h) ELSE PyFloat(h)

RECURSIVE TrendRows(_)
TrendRows(es) ==
    IF es = <<>> THEN <<>>
    ELSE <<ToString(Head(es).timestamp) \o " " \o Head(es).commit \o " "
            \o Head(es).multi_stage.size_human \o " "
            \o Head(es).single_stage.size_human \o " "
            \o PySignedFloat(Head(es).reduction.percent) \o "%">>
         \o TrendRows(Tail(es))

\* SizeTracker.generate_trend_report: the lines printed and whether it
\* raised ZeroDivisionError
generate_trend_report(entries) ==
    LET total_multi  == SumSize(entries, "multi_stage")
        total_single == SumSize(entries, "single_stage")
        count == Len(entries)
        head == <<"Total Builds Tracked: " \o ToString(count)>>
    IN  IF entries = <<>>
          THEN [raised |-> FALSE, lines |-> <<"No historical data available">>]
        ELSE IF total_single = 0
          \* ((avg_single - avg_multi) / avg_single) * 100
          THEN [raised |-> TRUE, lines |-> head]
        ELSE [raised |-> FALSE,
              lines |-> head
                \o <<"Average Multi-Stage Size:  " \o size_human(total_multi, count),
                     "Average Single-Stage Size: " \o size_human(total_single, count),
                     "Average Reduction:         "
                         \o Fixed2((total_single - total_multi) * 100, total_single)
                         \o "%",
                     "Recent History (Last 5 Builds):">>
                \o TrendRows(LastFive(entries))]

SizeCsvHeader ==
    "timestamp,commit,multi_stage_bytes,multi_stage_human,single_stage_bytes,single_stage_human,reduction_bytes,reduction_percent"

SizeCsvRow(e) ==
    ToString(e.timestamp) \o "," \o e.commit \o ","
        \o ToString(e.multi_stage.size_bytes) \o "," \o e.multi_stage.size_human
        \o "," \o ToString(e.single_stage.size_bytes) \o ","
        \o e.single_stage.size_human \o "," \o ToString(e.reduction.bytes)
        \o "," \o PySignedFloat(e.reduction.percent)

RECURSIVE SizeCsvRows(_)
SizeCsvRows(es) ==
    IF es = <<>> THEN <<>> ELSE <<SizeCsvRow(Head(es))>> \o SizeCsvRows(Tail(es))

\* the content SizeTracker.export_csv leaves in size-history.csv
export_size_csv(entries) == <<SizeCsvHeader>> \o SizeCsvRows(entries)

\* the data lines print_current_comparison prints
print_current_comparison(e) ==
    <<"Commit: " \o e.commit,
      "Multi-Stage Image:  " \o e.multi_stage.size_human,
      "Single-Stage Image: " \o e.single_stage.size_human,
      "Size Reduction:     " \o e.reduction.human \o " ("
          \o PySignedFloat(e.reduction.percent) \o "%)">>

----------------------------------------------------------------------------
(* The invocations of track-build-time.py (processes Procs) and of         *)
(* size-tracker.py (processes SizeProcs).  A process is one run of main;   *)
(* when it ends its memory is gone: only the files and stdout remain.      *)
(*                                                                         *)
(* pc[p] is "idle" before the first run, "main" once the tracker is        *)
(* constructed, "writing" inside _save_history while the file is open,     *)
(* "ret_ok" / "ret_saved" / "ret_none" when the tracker's method has       *)
(* returned to main, "raising" while an uncaught exception propagates, and *)
(* the way the process ended otherwise.                                    *)

\* no formatting method is being called directly
NoCall == [fn |-> "", m |-> 0, e |-> 0, status |-> "none", result |-> ""]

Terminal == {"saved", "exit0", "exit1", "raised", "killed"}

EmptyHistory == [builds |-> <<>>]
EmptySizeHistory == [entries |-> <<>>]
EmptyOf(p) == IF p \in Procs THEN EmptyHistory ELSE EmptySizeHistory

Flags == [report : BOOLEAN, compare : BOOLEAN, export_csv : BOOLEAN]
NoFlags == [report |-> FALSE, compare |-> FALSE, export_csv |-> FALSE]
SizeFlags == [report : BOOLEAN, export_csv : BOOLEAN]
NoSizeFlags == [report |-> FALSE, export_csv |-> FALSE]
NoFlagsOf(p) == IF p \in Procs THEN NoFlags ELSE NoSizeFlags

\* self.history[...] of either tracker
Records(p) == IF p \in Procs THEN history[p].builds ELSE history[p].entries

\* json.dump(self.history, f) of p's tracker
DumpOf(p, h) == IF p \in Procs THEN Dump(h) ELSE DumpSize(h)

Init ==
    /\ file = [f \in Files |-> <<>>]
    /\ fileExists = [f \in Files |-> FALSE]
    /\ pc = [p \in Procs \cup SizeProcs |-> "idle"]
    /\ args = [p \in Procs \cup SizeProcs |-> NoFlagsOf(p)]
    /\ history = [p \in Procs \cup SizeProcs |-> EmptyOf(p)]
    /\ entry = [p \in Procs \cup SizeProcs |-> <<>>]
    /\ buf = [p \in Procs \cup SizeProcs |-> <<>>]
    /\ pos = [p \in Procs \cup SizeProcs |-> 0]
    /\ out = [p \in Procs \cup SizeProcs |-> <<>>]
    /\ csv = [f \in Files |-> <<>>]
    /\ now = 0
    /\ runs = 0
    /\ nSaved = [f \in Files |-> 0]
    /\ serial = FALSE
    /\ call = NoCall

\* _load_history of either tracker on a file that exists or not, `empty`
\* being the history of a tracker without a file: a history, or a
\* json.JSONDecodeError
LoadFrom(exists, content, empty) ==
    IF exists THEN Load(content)
    ELSE [ok |-> TRUE, v |-> empty, next |-> 0]

\* what a tracker constructed now on p's data file loads
LoadHistory(p) ==
    LoadFrom(fileExists[DataFile(p)], file[DataFile(p)], EmptyOf(p))

\* the process ends with exit status `status`
Exit(p, status) ==
    /\ pc' = [pc EXCEPT ![p] = status]
    /\ args' = [args EXCEPT ![p] = NoFlagsOf(p)]
    /\ history' = [history EXCEPT ![p] = EmptyOf(p)]
    /\ entry' = [entry EXCEPT ![p] = <<>>]
    /\ buf' = [buf EXCEPT ![p] = <<>>]
    /\ pos' = [pos EXCEPT ![p] = 0]
    /\ out' = [out EXCEPT ![p] = <<>>]
    /\ UNCHANGED <<serial, call>>

\* no invocation other than p is running
Alone(p) ==
    \A q \in (Procs \cup SizeProcs) \ {p} : pc[q] \in Terminal \cup {"idle"}

\* main of either script up to and including the construction of the
\* tracker, with the flags drawn from FlagSet
Construct(p, FlagSet) ==
    /\ pc[p] \in Terminal \cup {"idle"}
    /\ serial => Alone(p)
    /\ runs < MaxRuns
    /\ runs' = runs + 1
    /\ LET r == LoadHistory(p)
       IN  IF r.ok
             THEN /\ history' = [history EXCEPT ![p] = r.v]
                  /\ pc' = [pc EXCEPT ![p] = "main"]
                  /\ \E a \in FlagSet : args' = [args EXCEPT ![p] = a]
                  /\ UNCHANGED <<entry, buf, pos, out, serial, call>>
             ELSE Exit(p, "raised")
    /\ UNCHANGED <<file, fileExists, csv, now, nSaved>>

\* track-build-time.py: main up to tracker = BuildTimeTracker(...)
Start(p) == Construct(p, Flags)

\* main: if args.report: tracker.generate_performance_report()
Report(p) ==
    /\ pc[p] = "main"
    /\ args[p].report
    /\ out' = [out EXCEPT ![p] = generate_performance_report(history[p].builds)]
    /\ pc' = [pc EXCEPT ![p] = "ret_ok"]
    /\ UNCHANGED <<file, fileExists, args, history, entry, buf, pos, csv, now,
                   runs, nSaved, serial, call>>

\* main: if args.compare: tracker.compare_builds()
Compare(p) ==
    /\ pc[p] = "main"
    /\ ~args[p].report /\ args[p].compare
    /\ LET r == compare_builds(history[p].builds)
       IN  /\ out' = [out EXCEPT ![p] = r.lines]
           /\ pc' = [pc EXCEPT ![p] = IF r.raised THEN "raising" ELSE "ret_ok"]
    /\ UNCHANGED <<file, fileExists, args, history, entry, buf, pos, csv, now,
                   runs, nSaved, serial, call>>

\* ExportCsv without main's `return`: main goes on to track a build
ExportCsvFallsThrough(p) ==
    /\ pc[p] = "main"
    /\ ~args[p].report /\ ~args[p].compare /\ args[p].export_csv
    /\ csv' = IF history[p].builds = <<>> THEN csv
              ELSE [csv EXCEPT !["build"] = export_csv(history[p].builds)]
    /\ out' = [out EXCEPT ![p] = <<"Tracking build...">>]
    /\ args' = [args EXCEPT ![p] = NoFlags]
    /\ UNCHANGED <<file, fileExists, pc, history, entry, buf, pos, now, runs,
                   nSaved, serial, call>>

\* main: if args.export_csv: tracker.export_csv()
ExportCsv(p) ==
    /\ pc[p] = "main"
    /\ ~args[p].report /\ ~args[p].compare /\ args[p].export_csv
    /\ IF history[p].builds = <<>>
         THEN /\ out' = [out EXCEPT ![p] = <<"No data to export">>]
              /\ csv' = csv
         ELSE /\ out' = [out EXCEPT ![p] = <<"Data exported to build-history.csv">>]
              /\ csv' = [csv EXCEPT !["build"] = export_csv(history[p].builds)]
    /\ pc' = [pc EXCEPT ![p] = "ret_ok"]
    /\ UNCHANGED <<file, fileExists, args, history, entry, buf, pos, now, runs,
                   nSaved, serial, call>>

\* TrackBuildFailed without the early return: the failed build is recorded
TrackBuildFailedRecords(p) ==
    /\ pc[p] = "main"
    /\ ~args[p].report /\ ~args[p].compare /\ ~args[p].export_csv
    /\ LET e == NewEntry(now, "", "multi-stage", DefaultImage,
                         DefaultDockerfile, FALSE, 0, 0, 0, None)
       IN  /\ entry' = [entry EXCEPT ![p] = <<e>>]
           /\ history' = [history EXCEPT ![p] =
                  [history[p] EXCEPT !.builds = Append(history[p].builds, e)]]
    /\ out' = [out EXCEPT ![p] = <<"Build failed - not recording metrics">>]
    /\ pc' = [pc EXCEPT ![p] = "ret_none"]
    /\ UNCHANGED <<file, fileExists, args, buf, pos, csv, now, runs, nSaved, serial, call>>

\* main's tracking branch when build_image reports success = False:
\* track_build returns None without creating an entry
TrackBuildFailed(p) ==
    /\ pc[p] = "main"
    /\ ~args[p].report /\ ~args[p].compare /\ ~args[p].export_csv
    /\ out' = [out EXCEPT ![p] = <<"Build failed - not recording metrics">>]
    /\ pc' = [pc EXCEPT ![p] = "ret_none"]
    /\ UNCHANGED <<file, fileExists, args, history, entry, buf, pos, csv, now,
                   runs, nSaved, serial, call>>

\* self.history["builds"].append(entry)
AppendEntry(h, e) == [h EXCEPT !.builds = Append(h.builds, e)]

\* self.history["entries"].append(entry)
AppendSizeEntry(h, e) == [h EXCEPT !.entries = Append(h.entries, e)]

\* the append of a tracking method followed by _save_history's
\* open(self.data_file, 'w'), which creates or truncates the file
AppendAndOpen(p, e, h) ==
    /\ entry' = [entry EXCEPT ![p] = <<e>>]
    /\ history' = [history EXCEPT ![p] = h]
    /\ buf' = [buf EXCEPT ![p] = DumpOf(p, h)]
    /\ file' = [file EXCEPT ![DataFile(p)] = <<>>]
    /\ fileExists' = [fileExists EXCEPT ![DataFile(p)] = TRUE]
    /\ pos' = [pos EXCEPT ![p] = 0]
    /\ pc' = [pc EXCEPT ![p] = "writing"]
    /\ now' = now + 1
    /\ UNCHANGED <<args, out, csv, runs, nSaved, serial, call>>

\* as AppendAndOpen, but open(self.data_file, 'w') raises (permission
\* denied): the exception leaves _save_history and the tracking method with
\* the entry still appended to self.history
AppendAndOpenFails(p, e, h) ==
    /\ entry' = [entry EXCEPT ![p] = <<e>>]
    /\ history' = [history EXCEPT ![p] = h]
    /\ pc' = [pc EXCEPT ![p] = "raising"]
    /\ now' = now + 1
    /\ UNCHANGED <<file, fileExists, args, buf, pos, out, csv, runs, nSaved, serial, call>>

\* main's tracking branch when the build succeeds: track_build creates the
\* entry, appends it and calls _save_history
TrackBuild(p) ==
    /\ pc[p] = "main"
    /\ ~args[p].report /\ ~args[p].compare /\ ~args[p].export_csv
    /\ \E bt \in BuildTypes, d \in Durations, sc \in StepCounts,
          sz \in ImageSizes :
          LET e == NewEntry(now, "", bt, DefaultImage, DefaultDockerfile,
                            FALSE, d, sc[1], sc[2], sz)
          IN  AppendAndOpen(p, e, AppendEntry(history[p], e))

\* TrackBuild when _save_history cannot open the file
TrackBuildOpenFails(p) ==
    /\ pc[p] = "main"
    /\ ~args[p].report /\ ~args[p].compare /\ ~args[p].export_csv
    /\ \E bt \in BuildTypes, d \in Durations, sc \in StepCounts,
          sz \in ImageSizes :
          LET e == NewEntry(now, "", bt, DefaultImage, DefaultDockerfile,
                            FALSE, d, sc[1], sc[2], sz)
          IN  AppendAndOpenFails(p, e, AppendEntry(history[p], e))

\* what reads back from a hole of a file: NUL bytes, which are no JSON
Hole == Tok("nul", "", 0, "")

\* write(2) of `data` at offset `at` of a file holding `content`; writing
\* past the end of the file leaves a hole in between
WriteAt(content, at, data) ==
    [i \in 1..(IF at + Len(data) > Len(content) THEN at + Len(data)
               ELSE Len(content)) |->
        IF i > at /\ i <= at + Len(data) THEN data[i - at]
        ELSE IF i <= Len(content) THEN content[i]
        ELSE Hole]

\* the part of a buffer one write() transfers
Chunk(b) == SubSeq(b, 1, IF Len(b) < ChunkLen THEN Len(b) ELSE ChunkLen)

\* the data lines print_build_summary prints
print_build_summary(e) ==
    <<"Commit:          " \o e.commit,
      "Build Type:      " \o e.build_type,
      "Image:           " \o e.image_name,
      "Duration:        " \o e.duration_human,
      "Image Size:      " \o e.image_size_human>>

\* _save_history: the buffered file object writes its next chunk; with the
\* last one the with block closes the file, the tracking method returns the
\* entry and main prints its summary
Flush(p) ==
    /\ pc[p] = "writing"
    /\ LET c == Chunk(buf[p])
           rest == SubSeq(buf[p], Len(c) + 1, Len(buf[p]))
           f == DataFile(p)
       IN  /\ file' = [file EXCEPT ![f] = WriteAt(file[f], pos[p], c)]
           /\ pos' = [pos EXCEPT ![p] = pos[p] + Len(c)]
           /\ buf' = [buf EXCEPT ![p] = rest]
           /\ IF rest = <<>>
                THEN /\ pc' = [pc EXCEPT ![p] = "ret_saved"]
                     /\ nSaved' = [nSaved EXCEPT ![f] = nSaved[f] + 1]
                     /\ out' = [out EXCEPT ![p] =
                            IF p \in Procs
                              THEN print_build_summary(entry[p][1])
                                     \o <<"Data saved to build-history.json">>
                              ELSE print_current_comparison(entry[p][1])
                                     \o <<"Data saved to size-history.json">>]
                ELSE UNCHANGED <<pc, nSaved, out>>
    /\ UNCHANGED <<fileExists, args, history, entry, csv, now, runs, serial, call>>

\* _save_history: a write() raises OSError (disk full, quota, I/O error);
\* the exception leaves _save_history and the tracking method with the entry
\* still appended to self.history
WriteFail(p) ==
    /\ pc[p] = "writing"
    /\ pc' = [pc EXCEPT ![p] = "raising"]
    /\ buf' = [buf EXCEPT ![p] = <<>>]
    /\ UNCHANGED <<file, fileExists, args, history, entry, pos, out, csv, now,
                   runs, nSaved, serial, call>>

\* the process is killed while _save_history has the file open
Kill(p) ==
    /\ pc[p] = "writing"
    /\ Exit(p, "killed")
    /\ UNCHANGED <<file, fileExists, csv, now, runs, nSaved>>

\* the end of main of either script: `return` after a report, after the
\* summary of a tracked entry, sys.exit(1) when the tracking method returned
\* None / False, or the traceback of an exception nothing catches
MainExit(p) ==
    /\ pc[p] \in {"ret_ok", "ret_saved", "ret_none", "raising"}
    /\ Exit(p, CASE pc[p] = "ret_ok" -> "exit0"
                 [] pc[p] = "ret_saved" -> "saved"
                 [] pc[p] = "ret_none" -> "exit1"
                 [] pc[p] = "raising" -> "raised")
    /\ UNCHANGED <<file, fileExists, csv, now, runs, nSaved>>

\* size-tracker.py: main up to tracker = SizeTracker(...)
StartSize(p) == Construct(p, SizeFlags)

\* size-tracker.py main: if args.report: tracker.generate_trend_report()
TrendReport(p) ==
    /\ pc[p] = "main"
    /\ args[p].report
    /\ LET r == generate_trend_report(history[p].entries)
       IN  /\ out' = [out EXCEPT ![p] = r.lines]
           /\ pc' = [pc EXCEPT ![p] = IF r.raised THEN "raising" ELSE "ret_ok"]
    /\ UNCHANGED <<file, fileExists, args, history, entry, buf, pos, csv, now,
                   runs, nSaved, serial, call>>

\* size-tracker.py main: if args.export_csv: tracker.export_csv()
ExportSizeCsv(p) ==
    /\ pc[p] = "main"
    /\ ~args[p].report /\ args[p].export_csv
    /\ IF history[p].entries = <<>>
         THEN /\ out' = [out EXCEPT ![p] = <<"No data to export">>]
              /\ csv' = csv
         ELSE /\ out' = [out EXCEPT ![p] = <<"Data exported to size-history.csv">>]
              /\ csv' = [csv EXCEPT !["size"] = export_size_csv(history[p].entries)]
    /\ pc' = [pc EXCEPT ![p] = "ret_ok"]
    /\ UNCHANGED <<file, fileExists, args, history, entry, buf, pos, now, runs,
                   nSaved, serial, call>>

\* track_images when get_image_size returned None for an image: it prints
\* the error and returns False
TrackImagesNoSize(p) ==
    /\ pc[p] = "main"
    /\ ~args[p].report /\ ~args[p].export_csv
    /\ \E multi_size, single_size \in SizeInputs :
          multi_size = None \/ single_size = None
    /\ out' = [out EXCEPT ![p] = <<"Error: Could not retrieve image sizes">>]
    /\ pc' = [pc EXCEPT ![p] = "ret_none"]
    /\ UNCHANGED <<file, fileExists, args, history, entry, buf, pos, csv, now,
                   runs, nSaved, serial, call>>

\* track_images when the single-stage image has size 0:
\* (size_reduction / single_size) * 100 raises ZeroDivisionError
TrackImagesZeroSize(p) ==
    /\ pc[p] = "main"
    /\ ~args[p].report /\ ~args[p].export_csv
    /\ \E multi_size, single_size \in SizeInputs :
          multi_size # None /\ single_size = 0
    /\ pc' = [pc EXCEPT ![p] = "raising"]
    /\ UNCHANGED <<file, fileExists, args, history, entry, buf, pos, out, csv,
                   now, runs, nSaved, serial, call>>

\* track_images with both sizes: it creates the entry, appends it and calls
\* _save_history
TrackImages(p) ==
    /\ pc[p] = "main"
    /\ ~args[p].report /\ ~args[p].export_csv
    /\ \E multi_size, single_size \in SizeInputs \ {None} :
          /\ single_size # 0
          /\ LET e == NewSizeEntry(now, "", "multi-stage-app:latest",
                                   "single-stage-app:latest", multi_size,
                                   single_size)
             IN  AppendAndOpen(p, e, AppendSizeEntry(history[p], e))

\* TrackImages when _save_history cannot open the file
TrackImagesOpenFails(p) ==
    /\ pc[p] = "main"
    /\ ~args[p].report /\ ~args[p].export_csv
    /\ \E multi_size, single_size \in SizeInputs \ {None} :
          /\ single_size # 0
          /\ LET e == NewSizeEntry(now, "", "multi-stage-app:latest",
                                   "single-stage-app:latest", multi_size,
                                   single_size)
             IN  AppendAndOpenFails(p, e, AppendSizeEntry(history[p], e))

\* the steps of an invocation of track-build-time.py
Step(p) ==
    \/ Start(p)
    \/ Report(p)
    \/ Compare(p)
    \/ ExportCsv(p)
    \/ TrackBuildFailed(p)
    \/ TrackBuild(p)
    \/ TrackBuildOpenFails(p)
    \/ Flush(p)
    \/ WriteFail(p)
    \/ Kill(p)
    \/ MainExit(p)

\* the steps of an invocation of size-tracker.py
StepSize(p) ==
    \/ StartSize(p)
    \/ TrendReport(p)
    \/ ExportSizeCsv(p)
    \/ TrackImagesNoSize(p)
    \/ TrackImagesZeroSize(p)
    \/ TrackImages(p)
    \/ TrackImagesOpenFails(p)
    \/ Flush(p)
    \/ WriteFail(p)
    \/ Kill(p)
    \/ MainExit(p)

\* two invocations of track-build-time.py running concurrently on the same
\* data file
Next == \E p \in Procs : Step(p)

Spec == Init /\ [][Next]_vars

\* invocations of the two scripts that the caller runs one at a time, as the
\* stages of a pipeline do
InitSeq ==
    /\ file = [f \in Files |-> <<>>]
    /\ fileExists = [f \in Files |-> FALSE]
    /\ pc = [p \in Procs \cup SizeProcs |-> "idle"]
    /\ args = [p \in Procs \cup SizeProcs |-> NoFlagsOf(p)]
    /\ history = [p \in Procs \cup SizeProcs |-> EmptyOf(p)]
    /\ entry = [p \in Procs \cup SizeProcs |-> <<>>]
    /\ buf = [p \in Procs \cup SizeProcs |-> <<>>]
    /\ pos = [p \in Procs \cup SizeProcs |-> 0]
    /\ out = [p \in Procs \cup SizeProcs |-> <<>>]
    /\ csv = [f \in Files |-> <<>>]
    /\ now = 0
    /\ runs = 0
    /\ nSaved = [f \in Files |-> 0]
    /\ serial = TRUE
    /\ call = NoCall

NextSeq == Step(1) \/ \E p \in SizeProcs : StepSize(p)

SpecSeq == InitSeq /\ [][NextSeq]_vars

\* wall-clock durations, in milliseconds, of the builds of a stored history
ReportDurations == {40000, 50000, 60000}

\* the histories earlier invocations of track_build leave in the store: up
\* to MaxHist entries of either build type, one per tick of the clock
StoredHistories ==
    UNION {{[builds |-> [i \in 1..n |->
                NewEntry(i - 1, "", c[i][1], DefaultImage, DefaultDockerfile,
                         FALSE, c[i][2], 1, 3, c[i][3])]] :
              c \in [1..n -> BuildTypes \X ReportDurations \X ImageSizes]} :
           n \in 0..MaxHist}

\* an invocation of track-build-time.py in report, compare or export mode
\* that has loaded a stored history
InitReport ==
    /\ \E h \in StoredHistories :
         /\ history = [p \in Procs \cup SizeProcs |->
                          IF p = 1 THEN h ELSE EmptyOf(p)]
         /\ file = [f \in Files |->
                       IF f = "build" /\ h.builds # <<>> THEN Dump(h) ELSE <<>>]
         /\ fileExists = [f \in Files |-> f = "build" /\ h.builds # <<>>]
         /\ now = Len(h.builds)
         /\ nSaved = [f \in Files |-> IF f = "build" THEN Len(h.builds) ELSE 0]
    /\ pc = [p \in Procs \cup SizeProcs |-> IF p = 1 THEN "main" ELSE "idle"]
    /\ \E a \in Flags \ {NoFlags} :
         args = [p \in Procs \cup SizeProcs |->
                    IF p = 1 THEN a ELSE NoFlagsOf(p)]
    /\ entry = [p \in Procs \cup SizeProcs |-> <<>>]
    /\ buf = [p \in Procs \cup SizeProcs |-> <<>>]
    /\ pos = [p \in Procs \cup SizeProcs |-> 0]
    /\ out = [p \in Procs \cup SizeProcs |-> <<>>]
    /\ csv = [f \in Files |-> <<>>]
    /\ runs = 1
    /\ serial = TRUE
    /\ call = NoCall

NextReport == Report(1) \/ Compare(1) \/ ExportCsv(1) \/ MainExit(1)

SpecReport == InitReport /\ [][NextReport]_vars

\* the data files an invocation of track-build-time.py can find: the store
\* of earlier invocations, what a kill during a rewrite left of it (nothing,
\* or its first chunk), and JSON documents of another structure ({} and
\* the store of size-tracker.py)
FoundFiles ==
    LET stored == {Dump(h) : h \in StoredHistories}
    IN  stored
          \cup {<<>>}
          \cup {SubSeq(d, 1, IF Len(d) > ChunkLen THEN ChunkLen ELSE Len(d) - 1) :
                   d \in stored}
          \cup {<<Tok("{", "", 0, ""), Tok("}", "", 0, "")>>,
                DumpSize(EmptySizeHistory)}

\* whether self.history["builds"] finds its key
HasBuilds(p) == "builds" \in DOMAIN history[p]

\* main after the construction of a tracker whose history has no "builds":
\* generate_performance_report, compare_builds, export_csv and the append
\* of track_build raise KeyError at self.history["builds"]
MainKeyError(p) ==
    /\ pc[p] = "main"
    /\ ~HasBuilds(p)
    /\ pc' = [pc EXCEPT ![p] = "raising"]
    /\ UNCHANGED <<file, fileExists, args, history, entry, buf, pos, out, csv,
                   now, runs, nSaved, serial, call>>

\* one invocation of track-build-time.py on a data file it finds
InitLoad ==
    /\ \/ /\ fileExists = [f \in Files |-> FALSE]
          /\ file = [f \in Files |-> <<>>]
       \/ /\ fileExists = [f \in Files |-> f = "build"]
          /\ \E d \in FoundFiles :
                file = [f \in Files |-> IF f = "build" THEN d ELSE <<>>]
    /\ pc = [p \in Procs \cup SizeProcs |-> "idle"]
    /\ args = [p \in Procs \cup SizeProcs |-> NoFlagsOf(p)]
    /\ history = [p \in Procs \cup SizeProcs |-> EmptyOf(p)]
    /\ entry = [p \in Procs \cup SizeProcs |-> <<>>]
    /\ buf = [p \in Procs \cup SizeProcs |-> <<>>]
    /\ pos = [p \in Procs \cup SizeProcs |-> 0]
    /\ out = [p \in Procs \cup SizeProcs |-> <<>>]
    /\ csv = [f \in Files |-> <<>>]
    /\ now = MaxHist
    /\ runs = MaxRuns - 1
    /\ nSaved = [f \in Files |-> 0]
    /\ serial = TRUE
    /\ call = NoCall

\* without "builds" only a failed build, which returns before the history
\* is used, gets past MainKeyError
NextLoad ==
    \/ MainKeyError(1)
    \/ IF pc[1] = "main" /\ ~HasBuilds(1) THEN TrackBuildFailed(1) ELSE Step(1)

SpecLoad == InitLoad /\ [][NextLoad]_vars

\* longest duration, in whole seconds, given to format_duration
MaxSeconds == 7300

\* byte counts m * 1024^e given to get_human_readable_size, as <<m, e>>:
\* around every step of the ladder and past its end, and None
SizeArgs ==
    ({0, 1, 512, 1023, 1024, 1025, 1536} \X (0..5))
        \cup ({1048063, 1048570, 1048575, 1048576} \X {0})
        \cup {<<None, 0>>}

\* a method of a tracker about to be called with an argument
Calls ==
    {[fn |-> f, m |-> a[1], e |-> a[2], status |-> "pending", result |-> ""] :
        f \in {"BuildTimeTracker.get_human_readable_size",
               "SizeTracker.get_human_readable_size"},
        a \in SizeArgs}
    \cup {[fn |-> "BuildTimeTracker.format_duration", m |-> d, e |-> 0,
           status |-> "pending", result |-> ""] : d \in 0..MaxSeconds}

Returned(c, text) == [c EXCEPT !.status = "returned", !.result = text]

\* BuildTimeTracker.get_human_readable_size(m * 1024^e)
CallBuildSize ==
    /\ call.fn = "BuildTimeTracker.get_human_readable_size"
    /\ call.status = "pending"
    /\ call' = Returned(call, IF call.e = 0
                                THEN get_human_readable_size(call.m, 1)
                                ELSE ScaledLadder(call.m, call.e, 1))
    /\ UNCHANGED <<file, fileExists, pc, args, history, entry, buf, pos, out,
                   csv, now, runs, nSaved, serial>>

\* SizeTracker.get_human_readable_size(m * 1024^e): it has no test for
\* None, and None < 1024.0 raises TypeError
CallSizeSize ==
    /\ call.fn = "SizeTracker.get_human_readable_size"
    /\ call.status = "pending"
    /\ call' = IF call.m = None THEN [call EXCEPT !.status = "raised"]
               ELSE Returned(call, IF call.e = 0 THEN size_human(call.m, 1)
                                   ELSE ScaledLadder(call.m, call.e, 1))
    /\ UNCHANGED <<file, fileExists, pc, args, history, entry, buf, pos, out,
                   csv, now, runs, nSaved, serial>>

\* BuildTimeTracker.format_duration(d) for d whole seconds
CallFormatDuration ==
    /\ call.fn = "BuildTimeTracker.format_duration"
    /\ call.status = "pending"
    /\ call' = Returned(call, format_duration(call.m, 1))
    /\ UNCHANGED <<file, fileExists, pc, args, history, entry, buf, pos, out,
                   csv, now, runs, nSaved, serial>>

\* a tracker without a data file whose formatting methods are called
InitFormat ==
    /\ file = [f \in Files |-> <<>>]
    /\ fileExists = [f \in Files |-> FALSE]
    /\ pc = [p \in Procs \cup SizeProcs |-> "idle"]
    /\ args = [p \in Procs \cup SizeProcs |-> NoFlagsOf(p)]
    /\ history = [p \in Procs \cup SizeProcs |-> EmptyOf(p)]
    /\ entry = [p \in Procs \cup SizeProcs |-> <<>>]
    /\ buf = [p \in Procs \cup SizeProcs |-> <<>>]
    /\ pos = [p \in Procs \cup SizeProcs |-> 0]
    /\ out = [p \in Procs \cup SizeProcs |-> <<>>]
    /\ csv = [f \in Files |-> <<>>]
    /\ now = 0
    /\ runs = 0
    /\ nSaved = [f \in Files |-> 0]
    /\ serial = TRUE
    /\ call \in Calls

NextFormat == CallBuildSize \/ CallSizeSize \/ CallFormatDuration

SpecFormat == InitFormat /\ [][NextFormat]_vars

----------------------------------------------------------------------------
(* Claims about the history store *)

\* number of records a reader finds in data file f: 0 when there is no file,
\* -1 when the file cannot be loaded
OnDiskCount(f) ==
    IF ~fileExists[f] THEN 0
    ELSE IF ~Load(file[f]).ok THEN -1
    ELSE IF f = "build" THEN Len(Load(file[f]).v.builds)
    ELSE Len(Load(file[f]).v.entries)

\* C1: whenever no append is in progress, the number of records in a
\* backing file equals the number of appends to it that succeeded (so a
\* failed append leaves the count as it was).
C1_CountEqualsSuccessfulAppends ==
    \A f \in Files :
        (\A p \in Procs \cup SizeProcs :
            DataFile(p) = f => pc[p] # "writing") =>
                OnDiskCount(f) = nSaved[f]

\* C2: when the persisting write of an append fails, the in-memory history
\* is rolled back: the entry of the failed append is no longer in it.
C2_RolledBackOnFailure ==
    \A p \in Procs \cup SizeProcs :
        (pc[p] = "raising" /\ entry[p] # <<>>) =>
            \A i \in 1..Len(Records(p)) : Records(p)[i] # entry[p][1]

\* the history h of p's tracker with entry e appended
WithEntry(p, h, e) ==
    IF p \in Procs THEN AppendEntry(h, e) ELSE AppendSizeEntry(h, e)

\* C3: at every point in time, also while a rewrite is in progress or after
\* a crash in it, the backing file loads, and during an append it loads as
\* the prior sequence or as the prior sequence plus the new record.
C3_ReadersSeeWholeStore ==
    \A p \in Procs \cup SizeProcs :
        fileExists[DataFile(p)] =>
            /\ LoadHistory(p).ok
            /\ entry[p] # <<>> =>
                 \/ LoadHistory(p).v = history[p]
                 \/ WithEntry(p, LoadHistory(p).v, entry[p][1]) = history[p]

\* C4: when an append has succeeded, a new tracker loading the data file
\* gets a history identical to the in-memory history of the tracker that
\* appended.
C4_ReloadEqualsMemory ==
    [][\A p \in Procs \cup SizeProcs :
          (pc[p] = "writing" /\ pc'[p] = "ret_saved") =>
              /\ history'[p] = history[p]
              /\ LoadFrom(fileExists'[DataFile(p)], file'[DataFile(p)],
                          EmptyOf(p)).ok
              /\ LoadFrom(fileExists'[DataFile(p)], file'[DataFile(p)],
                          EmptyOf(p)).v = history'[p]]_vars

\* C4 witness: a second append has succeeded, the store holds a record with
\* a null size, and the tracker still holds its history
C4_Witness ==
    /\ pc[1] = "ret_saved"
    /\ nSaved["build"] = 2
    /\ Len(history[1].builds) = 2
    /\ history[1].builds[1].image_size_bytes = None
    /\ history[1].builds[2].image_size_bytes # None

\* C5: when the build fails, track_build creates no record and leaves the
\* in-memory history and the backing file unchanged, and main then exits
\* with status 1 leaving the file unchanged.
C5_FailedBuildRecordsNothing ==
    [][\A p \in Procs :
          /\ (pc[p] = "main" /\ pc'[p] = "ret_none") =>
                /\ entry'[p] = <<>>
                /\ history'[p] = history[p]
                /\ UNCHANGED <<file, fileExists, nSaved>>
          /\ (pc[p] = "ret_none" /\ pc'[p] # pc[p]) =>
                /\ pc'[p] = "exit1"
                /\ UNCHANGED <<file, fileExists, nSaved>>]_vars

\* C5 witness: a failed build ended the run with status 1 while the store
\* holds a record
C5_Witness ==
    /\ pc[1] = "exit1"
    /\ OnDiskCount("build") = 1

\* C6: when an invocation completes its save and the other invocation has
\* completed one too, the file is exactly the snapshot of the one that
\* completed last.
C6_LastWriterWins ==
    [][\A p, q \in Procs :
          (/\ p # q
           /\ pc[p] = "writing" /\ pc'[p] = "ret_saved"
           /\ pc[q] \in {"ret_saved", "saved"}) =>
              file'["build"] = Dump(history[p])]_vars

ReadOnlyMode(p) ==
    IF p \in Procs THEN args[p].report \/ args[p].compare \/ args[p].export_csv
    ELSE args[p].report \/ args[p].export_csv

\* C7: a step of an invocation in report, compare or export mode changes
\* neither the in-memory history nor the backing file and appends nothing;
\* an invocation appends only from main's tracking branch, one record, and
\* never comes back to it.
C7_ReadOnlyModes ==
    [][\A p \in Procs \cup SizeProcs :
          /\ (pc[p] = "main" /\ ReadOnlyMode(p)) =>
                /\ history'[p] = history[p]
                /\ entry'[p] = <<>>
                /\ pc'[p] \in {"ret_ok", "raising"}
                /\ UNCHANGED <<file, fileExists, nSaved>>
          /\ (pc[p] = "ret_ok" /\ pc'[p] # pc[p]) =>
                /\ pc'[p] = "exit0"
                /\ UNCHANGED <<file, fileExists, nSaved>>
          /\ (pc[p] \notin Terminal \cup {"idle"}
                  /\ history'[p] # history[p]
                  /\ pc'[p] \notin Terminal) =>
                /\ pc[p] = "main" /\ ~ReadOnlyMode(p)
                /\ pc'[p] \in {"writing", "raising"}
                /\ entry'[p] # <<>>
                /\ history'[p] = WithEntry(p, history[p], entry'[p][1])
          /\ (pc[p] \notin Terminal \cup {"idle", "main"}) => pc'[p] # "main"
      ]_vars

\* C7 witness: an export of a non-empty history has returned; the store is
\* as it was loaded
C7_Witness ==
    /\ pc[1] = "ret_ok"
    /\ args[1].export_csv /\ ~args[1].report /\ ~args[1].compare
    /\ history[1].builds # <<>>
    /\ csv["build"] # <<>>
    /\ LoadHistory(1).ok /\ LoadHistory(1).v = history[1]

\* C8: the report, trend and comparison operations never raise, whatever
\* the history holds.
C8_ReportsNeverRaise ==
    [][\A p \in Procs \cup SizeProcs :
          (/\ pc[p] = "main"
           /\ args[p].report \/ (p \in Procs /\ args[p].compare)) =>
              pc'[p] # "raising"]_vars

\* the lines of a report
Lines(report) == {report[i] : i \in 1..Len(report)}

\* C9: the summary report has the build-time comparison block if and only
\* if both groups are non-empty and improvement =
\* (meanSingle - meanMulti) / meanSingle * 100 is strictly positive, and
\* the block prints that improvement to one decimal; means of 40 s and 50 s
\* print "20.0% faster", means of 60 s and 50 s print no block.
C9_ComparisonLine ==
    [][(pc[1] = "main" /\ args[1].report /\ pc'[1] = "ret_ok") =>
          LET builds == history[1].builds
              multi  == SelectSeq(builds, IsMulti)
              single == SelectSeq(builds, IsSingle)
              nm == Len(multi)
              ns == Len(single)
              sm == SumOf(multi, "duration_seconds")
              ss == SumOf(single, "duration_seconds")
              \* improvement == num / den, with den > 0 where it is used
              num == (ss * nm - sm * ns) * 100
              den == ss * nm
              shown == "Build Time Comparison:" \in Lines(out'[1])
          IN  /\ shown <=> (nm > 0 /\ ns > 0 /\ num > 0)
              /\ shown =>
                    ("  Multi-stage is " \o Fixed1(num, den) \o "% faster")
                        \in Lines(out'[1])
              /\ (nm > 0 /\ ns > 0 /\ sm = 4000 * nm /\ ss = 5000 * ns) =>
                    "  Multi-stage is 20.0% faster" \in Lines(out'[1])
              /\ (nm > 0 /\ ns > 0 /\ sm = 6000 * nm /\ ss = 5000 * ns) =>
                    ~shown]_vars

\* C9 witness: a report of a 40 s multi-stage build and a 50 s single-stage
\* build has printed the comparison
C9_Witness ==
    /\ pc[1] = "ret_ok"
    /\ args[1].report
    /\ Len(history[1].builds) = 2
    /\ "  Multi-stage is 20.0% faster" \in Lines(out[1])

\* C9 witness of the other side: a report of a 60 s multi-stage build and a
\* 50 s single-stage build has printed no comparison
C9_WitnessOmitted ==
    /\ pc[1] = "ret_ok"
    /\ args[1].report
    /\ Len(history[1].builds) = 2
    /\ history[1].builds[1].build_type = "multi-stage"
    /\ history[1].builds[1].duration_seconds = 6000
    /\ history[1].builds[2].build_type = "single-stage"
    /\ history[1].builds[2].duration_seconds = 5000
    /\ "Build Time Comparison:" \notin Lines(out[1])

\* the row of a build in the documented CSV format: the fields in column
\* order, with 0 in the image_size_bytes column for a null size
DocumentedCsvRow(build) ==
    ToString(build.timestamp) \o "," \o build.commit \o "," \o build.build_type
        \o "," \o build.image_name \o "," \o PyFloat(build.duration_seconds)
        \o "," \o ToString(build.cache_hits) \o "," \o ToString(build.total_steps)
        \o "," \o PyRate(build) \o ","
        \o (IF build.image_size_bytes = None THEN "0"
            ELSE ToString(build.image_size_bytes)) \o ","
        \o (IF build.no_cache THEN "True" ELSE "False")

\* C10: the export of a history of N >= 1 records writes N + 1 lines, the
\* header and one row per record in insertion order, and a record with a
\* null image_size_bytes has 0 in that column.
C10_CsvExport ==
    [][\A p \in Procs :
          (/\ pc[p] = "main"
           /\ ~args[p].report /\ ~args[p].compare /\ args[p].export_csv
           /\ history[p].builds # <<>>
           /\ pc'[p] = "ret_ok") =>
              /\ Len(csv'["build"]) = Len(history[p].builds) + 1
              /\ csv'["build"][1] = CsvHeader
              /\ \A i \in 1..Len(history[p].builds) :
                    csv'["build"][i + 1] = DocumentedCsvRow(history[p].builds[i])
      ]_vars

\* C11: the construction of a tracker loads the empty history when the data
\* file is absent and the stored history when the file holds one, and fails
\* when the file exists but does not hold a document of the expected
\* structure; the file is left as it was in every case.
C11_LoadOrFail ==
    [][(pc[1] \in Terminal \cup {"idle"} /\ pc'[1] # pc[1]) =>
          LET r == Load(file["build"])
              expected == r.ok /\ "builds" \in DOMAIN r.v
          IN  /\ UNCHANGED <<file, fileExists>>
              /\ ~fileExists["build"] =>
                    pc'[1] = "main" /\ history'[1] = EmptyHistory
              /\ (fileExists["build"] /\ expected) =>
                    pc'[1] = "main" /\ Dump(history'[1]) = file["build"]
              /\ (fileExists["build"] /\ ~expected) =>
                    pc'[1] = "raised"]_vars

\* C12: a tracking invocation completes with a record also when the size
\* inspection returned null: the step out of main's tracking branch creates
\* an entry (it does not return without one, except for a failed build of
\* the build-time tracker), and the save that completes persists the entry
\* with a null size kept as null.
C12_NullSizeTolerated ==
    [][\A p \in Procs \cup SizeProcs :
          /\ (pc[p] = "main" /\ ~ReadOnlyMode(p) /\ pc'[p] # pc[p]
                  /\ p \in SizeProcs) =>
                /\ pc'[p] \in {"writing", "raising"}
                /\ pc'[p] = "writing" => entry'[p] # <<>>
          /\ (pc[p] = "writing" /\ pc'[p] = "ret_saved" /\ p \in Procs) =>
                LET r == LoadFrom(fileExists'["build"], file'["build"],
                                  EmptyHistory)
                IN  /\ r.ok
                    /\ r.v.builds # <<>>
                    /\ r.v.builds[Len(r.v.builds)] = entry[p][1]
                    /\ (entry[p][1].image_size_bytes = None) =>
                          r.v.builds[Len(r.v.builds)].image_size_bytes = None
      ]_vars

\* whether m * 1024^e < 1024^j, for 0 <= m < 1024^3
BelowPower(m, e, j) ==
    \/ m = 0
    \/ e < j /\ (j - e >= 3 \/ m < 1024^(j - e))

\* C13: get_human_readable_size of either tracker returns "N/A" for a null
\* size and "0.00 B" for 0, and for a byte count b >= 0 it shows b divided
\* by 1024^k to two decimals with unit number k of B, KB, MB, GB, TB, k the
\* smallest for which that quotient is below 1024; the magnitude shown is
\* below 1024.
C13_SmallestUnit ==
    (call.fn \in {"BuildTimeTracker.get_human_readable_size",
                  "SizeTracker.get_human_readable_size"}
        /\ call.status # "pending") =>
        /\ call.status = "returned"
        /\ call.m = None => call.result = "N/A"
        /\ call.m = 0 => call.result = "0.00 B"
        /\ call.m # None =>
              \E k \in 0..4 :
                 /\ BelowPower(call.m, call.e, k + 1)
                 /\ \A j \in 0..(k - 1) : ~BelowPower(call.m, call.e, j + 1)
                 /\ LET num == IF call.m = 0 THEN 0
                               ELSE IF call.e >= k
                                 THEN call.m * 1024^(call.e - k)
                               ELSE call.m
                        den == IF call.e >= k THEN 1 ELSE 1024^(k - call.e)
                    IN  /\ call.result = Fixed2(num, den) \o " "
                              \o <<"B", "KB", "MB", "GB", "TB">>[k + 1]
                        /\ RoundHalfEven(num * 100, den) < 102400

\* C14: format_duration of d >= 0 whole seconds shows the seconds to two
\* decimals when d < 60, d div 60 minutes and d mod 60 seconds when
\* 60 <= d < 3600, and d div 3600 hours and (d mod 3600) div 60 minutes
\* otherwise; 45 gives "45.00s", 125 gives "2m 5s", 3725 gives "1h 2m".
C14_FormatDuration ==
    (call.fn = "BuildTimeTracker.format_duration" /\ call.status # "pending") =>
        LET d == call.m
        IN  /\ call.status = "returned"
            /\ d < 60 => call.result = ToString(d) \o ".00s"
            /\ (60 <= d /\ d < 3600) =>
                  call.result = ToString(d \div 60) \o "m "
                                    \o ToString(d % 60) \o "s"
            /\ d >= 3600 =>
                  call.result = ToString(d \div 3600) \o "h "
                                    \o ToString((d % 3600) \div 60) \o "m"
            /\ d = 45 => call.result = "45.00s"
            /\ d = 125 => call.result = "2m 5s"
            /\ d = 3725 => call.result = "1h 2m"

\* C14 witness: format_duration(3725) has returned "1h 2m"
C14_Witness ==
    /\ call.fn = "BuildTimeTracker.format_duration"
    /\ call.m = 3725
    /\ call.status = "returned"
    /\ call.result = "1h 2m"

====
